---- MODULE Spec2Model ----
(***************************************************************************)
(* Stair Trek (src/stair_track.py): a Streamlit script that is re-run from *)
(* top to bottom on every user interaction.  Each run loads the CSV table, *)
(* renders the selected tab and, when a button was pressed, rewrites the   *)
(* whole table.                                                            *)
(*                                                                         *)
(* Numbers.  TOTAL_FLIGHTS_KINABALU = 13435 / 8 = 1679.375 and the daily   *)
(* average are floats in the source.  They are kept here as exact          *)
(* fractions [num, den] with den > 0.  For the tables of this model (fewer *)
(* than 8 dates, flights below 10^4) every quotient the source truncates   *)
(* is at least 1/(8 * total) away from an integer, far more than a double  *)
(* rounding error, so truncating the exact fraction gives the int() of the *)
(* float.                                                                  *)
(***************************************************************************)
EXTENDS Integers, Sequences, FiniteSets, TLC

VARIABLES
    file,        \* stairs_data.csv: [exists, rows], rows of [Date (ISO text), Flights]
    data,        \* the DataFrame `data` at the end of the last script run
    selected,    \* the tab chosen in option_menu
    newFlights,  \* the "New number of flights" widget on the user's screen
    page,        \* what the last run put on the Dashboard
    last         \* the interaction that triggered the last run

vars == <<file, data, selected, newFlights, page, last>>

----------------------------------------------------------------------------
(* Program constants *)

TOTAL_HEIGHT_KINABALU == 13435
HEIGHT_PER_FLIGHT == 8
\* TOTAL_HEIGHT_KINABALU / HEIGHT_PER_FLIGHT, a true division: 1679.375
TOTAL_FLIGHTS_KINABALU == [num |-> TOTAL_HEIGHT_KINABALU, den |-> HEIGHT_PER_FLIGHT]
\* min_value of the "Number of flights climbed today" input
min_value == 0

(* Bounds of the model *)

NumDates == 3      \* calendar dates the user picks from
MaxRows == 4       \* rows the table may grow to
DayParts == 4      \* datetime.today() falls on one of DayParts instants of the day

\* The dates offered by st.date_input: the first day of the first months of 2024.
Dates == { [year |-> 2024, month |-> m, day |-> 1] : m \in 1..NumDates }
\* Values the user can type into the add form before min_value is applied.
TypedFlights == {-5, 0, 100}
\* An input without min_value.
AddInputsNoMin == TypedFlights
\* st.number_input(min_value=0, step=1): the widget refuses anything below min_value.
AddInputs == { f \in TypedFlights : f >= min_value }
\* st.number_input("New number of flights", value=...) has no min_value.
EditInputs == {-5, 0, 100}
Tabs == {"Dashboard", "Data Entry", "Historical Data"}
TimesOfDay == 0..(DayParts - 1)

----------------------------------------------------------------------------
(* Cells of the Date column.  A cell is a datetime.date object ("date"), a *)
(* text 'YYYY-MM-DD' ("str", the three zero-padded fields as a tuple) or a *)
(* pandas Timestamp ("ts", datetime64).                                    *)

DateCell(y, m, d) == [k |-> "date", year |-> y, month |-> m, day |-> d, iso |-> <<>>]
StrCell(s) == [k |-> "str", year |-> 0, month |-> 0, day |-> 0, iso |-> s]
TsCell(y, m, d) == [k |-> "ts", year |-> y, month |-> m, day |-> d, iso |-> <<>>]

\* date.strftime('%Y-%m-%d') and str(date): the ISO text of a date.
strftime(d) == <<d.year, d.month, d.day>>

\* Series.astype(str) on one cell: text stays, a date prints as ISO text.
astype_str(c) == IF c.k = "str" THEN c.iso ELSE <<c.year, c.month, c.day>>

\* pd.to_datetime on one cell: text is parsed, a date becomes midnight of that day.
to_datetime(c) ==
    IF c.k = "str" THEN TsCell(c.iso[1], c.iso[2], c.iso[3])
    ELSE TsCell(c.year, c.month, c.day)

\* Series.dt.date on one datetime64 cell: the time of day is dropped.
dt_date(c) == DateCell(c.year, c.month, c.day)

\* The Series.dt accessor exists only on a datetime64 column; on an object
\* column (date objects, text) pandas raises AttributeError.
HasDtAccessor(df) == \A i \in 1..Len(df) : df[i].Date.k = "ts"

NoFile == [exists |-> FALSE, rows |-> <<>>]

\* load_data(): read_csv(parse_dates=["Date"]), then to_datetime(...).dt.date.
load_data(f) ==
    IF f.exists
    THEN [i \in 1..Len(f.rows) |->
            [Date |-> dt_date(to_datetime(StrCell(f.rows[i].Date))),
             Flights |-> f.rows[i].Flights]]
    ELSE <<>>

\* save_data line 26: data['Date'] = pd.to_datetime(data['Date']).dt.date (in place).
NormalizeDates(df) ==
    [i \in 1..Len(df) |->
        [Date |-> dt_date(to_datetime(df[i].Date)), Flights |-> df[i].Flights]]

\* save_data line 27: to_csv writes the header and one row per record.
to_csv(df) ==
    [exists |-> TRUE,
     rows |-> [i \in 1..Len(df) |->
                [Date |-> astype_str(df[i].Date), Flights |-> df[i].Flights]]]

save_data(df) == to_csv(NormalizeDates(df))

----------------------------------------------------------------------------
(* Arithmetic on exact fractions [num, den], den > 0; den = 0 marks the    *)
(* result of a division by zero.                                           *)

Frac(n, d) == [num |-> n, den |-> d]
Zero == Frac(0, 1)

RECURSIVE SumFlights(_)
\* data['Flights'].sum()
SumFlights(df) ==
    IF df = <<>> THEN 0 ELSE df[1].Flights + SumFlights(Tail(df))

RECURSIVE SumOver(_, _)
SumOver(S, f) ==
    IF S = {} THEN 0
    ELSE LET x == CHOOSE y \in S : TRUE IN f[x] + SumOver(S \ {x}, f)

\* data.groupby(key)['Flights'].sum(): one sum per distinct value of the key
\* column, keys[i] being the key of row i.
groupby_sum(df, keys) ==
    [k \in { keys[i] : i \in 1..Len(df) } |->
        SumOver({ i \in 1..Len(df) : keys[i] = k }, [i \in 1..Len(df) |-> df[i].Flights])]

\* Series.mean() of the per-key sums.
mean(sums) == Frac(SumOver(DOMAIN sums, sums), Cardinality(DOMAIN sums))

\* The column data['Date'] as grouping key: equal dates fall in one group.
DateColumn(df) == [i \in 1..Len(df) |-> <<df[i].Date.year, df[i].Date.month, df[i].Date.day>>]
DaysBeforeMonth == <<0, 31, 60, 91, 121, 152, 182, 213, 244, 274, 305, 335>>
\* line 32: data['Week'] = data['Date'].dt.isocalendar().week, for dates of 2024
\* (1 January 2024 is a Monday).
WeekColumn(df) ==
    [i \in 1..Len(df) |-> ((DaysBeforeMonth[df[i].Date.month] + df[i].Date.day - 1) \div 7) + 1]
\* line 33: data['Month'] = data['Date'].dt.month
MonthColumn(df) == [i \in 1..Len(df) |-> df[i].Date.month]

\* calculate_averages(data), lines 30-40.
calculate_averages(df) ==
    IF df # <<>>
    THEN IF HasDtAccessor(df)
         THEN [error |-> "none",
               daily_avg |-> mean(groupby_sum(df, DateColumn(df))),
               weekly_avg |-> mean(groupby_sum(df, WeekColumn(df))),
               monthly_avg |-> mean(groupby_sum(df, MonthColumn(df)))]
         ELSE [error |-> "AttributeError",
               daily_avg |-> Zero, weekly_avg |-> Zero, monthly_avg |-> Zero]
    ELSE [error |-> "none",
          daily_avg |-> Zero, weekly_avg |-> Zero, monthly_avg |-> Zero]

\* A guard that lets a zero average through.
DailyAvgNotNegative(avg) == avg.num >= 0
\* line 47: if daily_avg > 0
DailyAvgPositive(avg) == avg.num > 0

\* line 48: TOTAL_FLIGHTS_KINABALU - total_flights_climbed
remaining_flights(total) ==
    Frac(TOTAL_FLIGHTS_KINABALU.num - total * TOTAL_FLIGHTS_KINABALU.den,
         TOTAL_FLIGHTS_KINABALU.den)

\* line 49: remaining_flights / daily_avg (avg.num >= 0; zero gives den = 0)
FracDiv(a, avg) == Frac(a.num * avg.den, a.den * avg.num)

\* A floor division, as Python's // would give.
FloorToInt(q) == q.num \div q.den
\* line 51: int(days_to_completion) truncates toward zero.
TruncToInt(q) ==
    IF q.num >= 0 THEN q.num \div q.den ELSE -((-q.num) \div q.den)

\* line 50: the calendar date of datetime.today() + timedelta(days), as the
\* number of days after today's date; tod / DayParts is today's time of day.
completion_offset(tod, q) == (tod * q.den + DayParts * q.num) \div (DayParts * q.den)

None == [some |-> FALSE, error |-> "none", completion_date |-> 0, days |-> 0]

\* predict_completion_date(data), lines 43-52.
predict_completion_date(df, tod) ==
    IF df # <<>>
    THEN LET total_flights_climbed == SumFlights(df)
             daily_avg == mean(groupby_sum(df, DateColumn(df)))
         IN  IF DailyAvgPositive(daily_avg)
             THEN LET days_to_completion ==
                          FracDiv(remaining_flights(total_flights_climbed), daily_avg)
                  IN  IF days_to_completion.den = 0
                      THEN [some |-> FALSE, error |-> "OverflowError",
                            completion_date |-> 0, days |-> 0]
                      ELSE [some |-> TRUE, error |-> "none",
                            completion_date |-> completion_offset(tod, days_to_completion),
                            days |-> TruncToInt(days_to_completion)]
             ELSE None
    ELSE None

----------------------------------------------------------------------------
(* The Dashboard tab, lines 110-210 *)

NA == [na |-> TRUE, value |-> 0]
Shown(v) == [na |-> FALSE, value |-> v]

\* line 191: completion_date if completion_date else "N/A"
CompletionCard(p) == IF p.some THEN Shown(p.completion_date) ELSE NA

\* A card that tests for None instead of truthiness.
DaysCardIfNotNone(p) == IF p.some THEN Shown(p.days) ELSE NA
\* line 194: days_remaining if days_remaining else "N/A" (0 is falsy)
DaysCard(p) == IF p.some /\ p.days # 0 THEN Shown(p.days) ELSE NA

NoAverages == [error |-> "none", daily_avg |-> Zero, weekly_avg |-> Zero, monthly_avg |-> Zero]
NoRow == [pred |-> None, completion |-> NA, days |-> NA]
NoPage == [view |-> "none", error |-> "none", averages |-> NoAverages, row |-> NoRow]

\* Row 3, lines 184-194.
PredictionsRow(df, tod) ==
    LET p == predict_completion_date(df, tod)
    IN  [pred |-> p, completion |-> CompletionCard(p), days |-> DaysCard(p)]

\* line 179: st.progress accepts a float in [0.0, 1.0] only.
ProgressInRange(total) ==
    total * TOTAL_FLIGHTS_KINABALU.den <= TOTAL_FLIGHTS_KINABALU.num

\* One run of the Dashboard branch; an exception ends the run where it is raised.
Dashboard(df, tod) ==
    LET averages == calculate_averages(df)
        total_flights == SumFlights(df)
        row == PredictionsRow(df, tod)
    IN  IF averages.error # "none"
        THEN [view |-> "Dashboard", error |-> averages.error,
              averages |-> NoAverages, row |-> NoRow]
        ELSE IF ~ProgressInRange(total_flights)
        THEN [view |-> "Dashboard", error |-> "StreamlitAPIException",
              averages |-> averages, row |-> NoRow]
        ELSE IF row.pred.error # "none"
        THEN [view |-> "Dashboard", error |-> row.pred.error,
              averages |-> averages, row |-> NoRow]
        ELSE [view |-> "Dashboard", error |-> "none",
              averages |-> averages, row |-> row]

----------------------------------------------------------------------------
(* The Data Entry and Historical Data tabs, lines 55-75 and 212-250 *)

Hidden == [shown |-> FALSE, date |-> <<>>, default |-> 0, value |-> 0]

Interaction(op, date, flights, msg, before) ==
    [op |-> op, date |-> date, flights |-> flights, msg |-> msg, before |-> before]

\* data['Date'].astype(str): the options of the selectbox, the values of line 224.
DateStrings(df) == { astype_str(df[i].Date) : i \in 1..Len(df) }

\* A test that never finds the date (text compared with date objects).
AlreadyAddedNoCast(today, df) == FALSE
\* line 224: today in data['Date'].astype(str).values
AlreadyAdded(today, df) == today \in DateStrings(df)

\* The new entry replaces the table instead of extending it.
concat_replacing(df, today, flights) == <<[Date |-> StrCell(today), Flights |-> flights]>>
\* lines 227-228: pd.concat([data, new_entry], ignore_index=True)
concat(df, today, flights) == Append(df, [Date |-> StrCell(today), Flights |-> flights])

\* st.number_input(label, value=v): a widget is identified by its label and
\* parameters.  One that was on the screen at the end of the previous run returns
\* what it shows; one the run creates returns its default v.
number_input(v, widget) ==
    IF widget.shown /\ widget.default = v THEN widget.value ELSE v

\* line 66: data.loc[data["Date"].astype(str) == date_to_modify, "Flights"] = new_flights
loc_assign(df, date_to_modify, new_flights) ==
    [i \in 1..Len(df) |->
        IF astype_str(df[i].Date) = date_to_modify
        THEN [Date |-> df[i].Date, Flights |-> new_flights]
        ELSE df[i]]

\* A mask that keeps the selected rows.
KeepMaskEq(c, date_to_modify) == astype_str(c) = date_to_modify
\* line 72: the mask data["Date"].astype(str) != date_to_modify
KeepMask(c, date_to_modify) == astype_str(c) # date_to_modify

\* line 72: data = data[mask]
drop_date(df, date_to_modify) ==
    SelectSeq(df, LAMBDA r : KeepMask(r.Date, date_to_modify))

\* A reset that forgets to save.
reset_unsaved(f) == f
\* lines 248-249: data = pd.DataFrame(columns=["Date", "Flights"]); save_data(data)
reset(f) == save_data(<<>>)

----------------------------------------------------------------------------
(* State machine: one action per interaction, each a whole script run *)

Init ==
    /\ file = NoFile
    /\ data = <<>>
    /\ selected = "Dashboard"
    /\ newFlights = Hidden
    /\ page = Dashboard(<<>>, 0)
    /\ last = Interaction("start", <<>>, 0, "none", 0)

\* The user picks a tab in option_menu (lines 97-110, 213, 239).
SelectTab(t, tod) ==
    LET df == load_data(file)
    IN  /\ selected' = t
        /\ data' = df
        /\ page' = IF t = "Dashboard" THEN Dashboard(df, tod) ELSE NoPage
        /\ newFlights' = Hidden
        /\ last' = Interaction("tab", <<>>, 0, "none", Len(df))
        /\ UNCHANGED file

\* "Add Entry" pressed with date d and flights f in the form (lines 216-236).
AddEntry(d, f) ==
    LET df == load_data(file)
        today == strftime(d)
    IN  /\ selected = "Data Entry"
        /\ IF AlreadyAdded(today, df)
           THEN /\ data' = df
                /\ last' = Interaction("add", today, f, "warning", Len(df))
                /\ UNCHANGED file
           ELSE /\ Len(df) < MaxRows
                /\ file' = save_data(concat(df, today, f))
                /\ data' = NormalizeDates(concat(df, today, f))
                /\ last' = Interaction("add", today, f, "success", Len(df))
        /\ newFlights' = Hidden
        /\ UNCHANGED <<selected, page>>

\* "Edit Data" pressed with date_to_modify chosen in the selectbox (lines 56-68).
ClickEdit(date_to_modify) ==
    LET df == load_data(file)
        row == SelectSeq(df, LAMBDA r : astype_str(r.Date) = date_to_modify)
        new_flights == number_input(row[1].Flights, newFlights)
        edited == loc_assign(df, date_to_modify, new_flights)
    IN  /\ selected = "Data Entry"
        /\ df # <<>>
        /\ date_to_modify \in DateStrings(df)
        /\ file' = save_data(edited)
        /\ data' = NormalizeDates(edited)
        /\ newFlights' = [shown |-> TRUE, date |-> date_to_modify,
                          default |-> row[1].Flights, value |-> new_flights]
        /\ last' = Interaction("edit", date_to_modify, new_flights, "success", Len(df))
        /\ UNCHANGED <<selected, page>>

\* The user types v into "New number of flights": the script runs again with
\* "Edit Data" no longer pressed, so lines 65-68 are skipped.
ChangeNewFlights(v) ==
    LET df == load_data(file)
    IN  /\ selected = "Data Entry"
        /\ newFlights.shown
        /\ v # newFlights.value
        /\ data' = df
        /\ newFlights' = Hidden
        /\ last' = Interaction("new_flights", newFlights.date, v, "none", Len(df))
        /\ UNCHANGED <<file, selected, page>>

\* "Delete Data" pressed with date_to_modify chosen in the selectbox (lines 56-61, 71-74).
ClickDelete(date_to_modify) ==
    LET df == load_data(file)
    IN  /\ selected = "Data Entry"
        /\ df # <<>>
        /\ date_to_modify \in DateStrings(df)
        /\ file' = save_data(drop_date(df, date_to_modify))
        /\ data' = NormalizeDates(drop_date(df, date_to_modify))
        /\ newFlights' = Hidden
        /\ last' = Interaction("delete", date_to_modify, 0, "success", Len(df))
        /\ UNCHANGED <<selected, page>>

\* "Reset Data" pressed (lines 239-250).
ResetData ==
    LET df == load_data(file)
    IN  /\ selected = "Historical Data"
        /\ file' = reset(file)
        /\ data' = <<>>
        /\ newFlights' = Hidden
        /\ last' = Interaction("reset", <<>>, 0, "warning", Len(df))
        /\ UNCHANGED <<selected, page>>

Next ==
    \/ \E t \in Tabs, tod \in TimesOfDay : SelectTab(t, tod)
    \/ \E d \in Dates, f \in AddInputs : AddEntry(d, f)
    \/ \E d \in Dates : ClickEdit(strftime(d))
    \/ \E v \in EditInputs : ChangeNewFlights(v)
    \/ \E d \in Dates : ClickDelete(strftime(d))
    \/ ResetData

Spec == Init /\ [][Next]_vars

----------------------------------------------------------------------------
(* The projection on its own: Row 3 of the Dashboard applied to every      *)
(* table the store can hold.                                               *)

RECURSIVE TableOf(_, _)
\* The CSV rows for the dates of months m..NumDates that fl gives a count.
TableOf(m, fl) ==
    IF m > NumDates THEN <<>>
    ELSE LET d == [year |-> 2024, month |-> m, day |-> 1]
         IN  IF d \in DOMAIN fl
             THEN <<[Date |-> strftime(d), Flights |-> fl[d]]>> \o TableOf(m + 1, fl)
             ELSE TableOf(m + 1, fl)

\* Flight counts of stored records: none, few, and enough to near or pass the target.
StoredFlights == {0, 100, 1000, 2000}

Tables == { TableOf(1, fl) : fl \in UNION { [D -> StoredFlights] : D \in SUBSET Dates } }

InitPred ==
    /\ \E rows \in Tables : file = [exists |-> TRUE, rows |-> rows]
    /\ data = load_data(file)
    /\ selected = "Dashboard"
    /\ newFlights = Hidden
    /\ page = NoPage
    /\ last = Interaction("start", <<>>, 0, "none", 0)

\* lines 184-194 on the loaded table
ShowPredictions(tod) ==
    /\ data' = load_data(file)
    /\ page' = [view |-> "Predictions", error |-> "none", averages |-> NoAverages,
                row |-> PredictionsRow(load_data(file), tod)]
    /\ last' = Interaction("predict", <<>>, 0, "none", Len(load_data(file)))
    /\ UNCHANGED <<file, selected, newFlights>>

NextPred == \E tod \in TimesOfDay : ShowPredictions(tod)

PredSpec == InitPred /\ [][NextPred]_vars

----------------------------------------------------------------------------
(* Properties *)

Rows == file.rows
HasRecord(rows, d) == \E i \in 1..Len(rows) : rows[i].Date = d
HasRow(rows, d, f) == \E i \in 1..Len(rows) : rows[i].Date = d /\ rows[i].Flights = f
Without(rows, d) == SelectSeq(rows, LAMBDA r : r.Date # d)
\* 8 * total - 13435 > 0: the flights climbed exceed TOTAL_FLIGHTS_KINABALU
Overshoot(df) == SumFlights(df) * HEIGHT_PER_FLIGHT - TOTAL_HEIGHT_KINABALU

\* C1: the persisted table never holds two records with the same date.
C1_OneRecordPerDate ==
    \A i, j \in 1..Len(Rows) : Rows[i].Date = Rows[j].Date => i = j

\* A second Add Entry for a date of a table of two or more records was turned down.
C1_Witness ==
    /\ last.op = "add" /\ last.msg = "warning"
    /\ Len(Rows) >= 2

\* C2: an Add Entry for a date that has a record changes neither the file nor
\* the table in memory, whatever the flight count; an Add Entry for a date
\* without a record appends exactly the record (date, flights) and saves it.
C2_AddEntry ==
    [][last'.op = "add" =>
        IF HasRecord(Rows, last'.date)
        THEN /\ last'.msg = "warning"
             /\ file' = file
             /\ data' = load_data(file)
        ELSE /\ last'.msg = "success"
             /\ file'.exists
             /\ file'.rows = Append(Rows, [Date |-> last'.date, Flights |-> last'.flights])
             /\ data' = load_data(file')]_vars

\* An Add Entry with a different flight count was turned down and the record kept.
C2_Witness ==
    /\ last.op = "add" /\ last.msg = "warning"
    /\ \E i \in 1..Len(Rows) :
          Rows[i].Date = last.date /\ Rows[i].Flights # last.flights

\* C3: once the user has pressed Edit Data for a date and entered the new value,
\* the persisted record of that date holds the new value.
C3_EditStoresNewValue ==
    last.op = "new_flights" => HasRow(Rows, last.date, last.flights)

\* C4: Delete Data for an existing date removes the record of that date and
\* nothing else, and an Add Entry for that date right after it is accepted.
C4_Delete ==
    [][/\ last'.op = "delete" =>
            /\ HasRecord(Rows, last'.date)
            /\ file'.exists
            /\ file'.rows = Without(Rows, last'.date)
            /\ ~HasRecord(file'.rows, last'.date)
       /\ (last.op = "delete" /\ last'.op = "add" /\ last'.date = last.date) =>
            /\ last'.msg = "success"
            /\ HasRow(file'.rows, last'.date, last'.flights)]_vars

\* One of several records was deleted.
C4_Witness ==
    /\ last.op = "delete"
    /\ Len(Rows) >= 1
    /\ last.before = Len(Rows) + 1

\* C5: after Reset Data the next load is empty, the averages of it are
\* (0, 0, 0) and there is no projection.
C5_Reset ==
    last.op = "reset" =>
        /\ load_data(file) = <<>>
        /\ calculate_averages(load_data(file)) =
             [error |-> "none", daily_avg |-> Zero, weekly_avg |-> Zero, monthly_avg |-> Zero]
        /\ \A tod \in TimesOfDay : predict_completion_date(load_data(file), tod) = None

\* A table of two or more records was reset.
C5_Witness == last.op = "reset" /\ last.before >= 2

\* C6: predict_completion_date raises nothing, and returns None exactly when
\* the table is empty or its flights sum to zero or less.
C6_NoneIffNoRate ==
    page.view = "Predictions" =>
        /\ page.row.pred.error = "none"
        /\ ~page.row.pred.some <=> (Len(data) = 0 \/ SumFlights(data) <= 0)

\* No projection for a table of two or more records that all have 0 flights.
C6_Witness ==
    /\ page.view = "Predictions"
    /\ Len(data) >= 2 /\ SumFlights(data) = 0
    /\ ~page.row.pred.some

\* C7 as claimed: when the flights climbed exceed the target the projection has
\* a negative day count and a completion date before today.
C7_NegativeWhenExceeded ==
    (page.view = "Predictions" /\ Overshoot(data) > 0) =>
        /\ page.row.pred.some
        /\ page.row.pred.days < 0
        /\ page.row.pred.completion_date < 0

\* C7 amended: when the flights climbed exceed the target there is a projection;
\* its day count is the quotient remaining / daily_avg truncated toward zero, so
\* it is <= 0; the completion date is that many days from today or one day
\* earlier, so it is not after today; both are negative when the overshoot is
\* at least one day's average.
C7_TruncatedWhenExceeded ==
    (page.view = "Predictions" /\ Overshoot(data) > 0) =>
        LET p == page.row.pred
            n == Cardinality({ data[i].Date : i \in 1..Len(data) })
            over == Overshoot(data) * n
            avg8 == HEIGHT_PER_FLIGHT * SumFlights(data)
        IN  /\ p.some /\ p.error = "none"
            /\ p.days <= 0
            /\ (-p.days) * avg8 <= over /\ over < (1 - p.days) * avg8
            /\ p.completion_date \in {p.days - 1, p.days}
            /\ over >= avg8 => (p.days < 0 /\ p.completion_date < 0)

\* The target is exceeded by more than a day's average: a negative day count.
C7_Witness ==
    /\ page.view = "Predictions" /\ Overshoot(data) > 0
    /\ page.row.pred.days < 0

\* C8: on a non-empty table calculate_averages gives a daily average whose
\* product with the number of dates is the sum of the flights, the daily
\* average predict_completion_date uses.
C8_DailyAverage ==
    (page.view = "Dashboard" /\ Len(data) > 0) =>
        /\ page.error = "none"
        /\ page.averages.daily_avg.num * Cardinality({ data[i].Date : i \in 1..Len(data) })
             = SumFlights(data) * page.averages.daily_avg.den
        /\ page.averages.daily_avg = mean(groupby_sum(data, DateColumn(data)))

\* C9: no persisted record has a negative flight count.
C9_FlightsNotNegative ==
    \A i \in 1..Len(Rows) : Rows[i].Flights >= 0

\* The user pressed Edit Data and typed a negative number.
C9_Witness ==
    /\ last.op = "new_flights" /\ last.flights < 0
    /\ HasRecord(Rows, last.date)

\* C10: the Days Remaining card reads "N/A" exactly when there is no
\* projection, and shows the day count otherwise.
C10_DaysCard ==
    page.view = "Predictions" =>
        /\ page.row.days.na <=> ~page.row.pred.some
        /\ page.row.pred.some => page.row.days.value = page.row.pred.days

====
